---- MODULE Spec2Model ----
(***************************************************************************)
(* The derived-state store of the to-do application: the useTodos hook     *)
(* (src/src/hooks/useTodos.ts, lines 1-106), the helpers it calls          *)
(* (src/src/utils/todoHelpers.ts) and the storage service it loads from    *)
(* and saves to (src/unnamed/part_011, services/storageService.ts).        *)
(*                                                                         *)
(* A text is a sequence of one-character strings.  A date is a number of   *)
(* milliseconds.  A state update made with setTodos / setFilter is queued  *)
(* and processed by the next render, as React does; the effects of a       *)
(* render run after it and before the next event.                          *)
(***************************************************************************)
EXTENDS Integers, Sequences, FiniteSets, TLC

VARIABLES
    todos,           \* useState<Todo[]>: the Collection as of the last render
    filter,          \* useState<FilterType>: the Filter as of the last render
    queue,           \* state updates queued by setTodos / setFilter, not yet rendered
    filteredTodos,   \* the value held by useMemo(filterTodos, [todos, filter])
    stats,           \* the value held by useMemo(calculateStats, [todos])
    isInitialMount,  \* useRef(true)
    mounted,         \* whether the effects of the first render have run
    strict,          \* whether React.StrictMode re-runs the mount effects (development build)
    storage,         \* localStorage.getItem(STORAGE_KEY)
    lastSaved,       \* <<argument>> of the store's most recent storageService.saveTodos call, or <<>>
    uncaught,        \* whether an error has left a storageService call
    loaded,          \* <<result>> of a storageService.getTodos call made on the service itself, or <<>>
    now,             \* the clock read by new Date()
    issued,          \* the identifiers crypto.randomUUID() has returned so far
    thrown,          \* the Error thrown by the most recent command call, if any
    ncalls,          \* number of command calls made so far
    seq,             \* history: the commands so far applied one by one, each at once
    tg,              \* history: the run of consecutive toggle calls of one identifier
    everIds,         \* history: identifiers of all records that ever were in todos
    lastBatch,       \* history: the queue that the last render processed
    prevTodos,       \* history: todos before the last render
    saveCalls,       \* history: number of saveTodos calls the last flush of effects made
    renewed,           \* history: the returned values whose identity the last render changed
    wasStale,        \* history: whether the save call before the last render had failed
    unmounted,       \* history: <<the Collection of the store before this one, when it unmounted>>
    itemCount,       \* todos.length of the list component: the length of the FilteredView it is given
    itemSize,        \* the itemHeight prop of VirtualTodoList (estimateSize)
    viewportSize,    \* the height prop of VirtualTodoList: the height of the scroll container
    overscan,        \* the overscan option of the virtualizer
    scrollOffset,    \* the scroll position the last scroll event reported
    window,          \* the range of indices the virtualizer returned last
    lazy,            \* the lazily imported VirtualTodoList module: "idle", "pending" or "loaded"
    renderer         \* what App shows for the list: "plain", "fallback" or "virtual"

vars == <<todos, filter, queue, filteredTodos, stats, isInitialMount, mounted, strict,
          storage, lastSaved, uncaught, loaded, now, issued, thrown, ncalls, seq, tg,
          everIds, lastBatch, prevTodos, saveCalls, renewed, wasStale, unmounted,
          itemCount, itemSize, viewportSize, overscan, scrollOffset, window, lazy,
          renderer>>

\* the variables of the list components
listVars == <<itemCount, itemSize, viewportSize, overscan, scrollOffset, window, lazy,
              renderer>>

(***************************** bounds **************************************)
NumIds == 3
MaxCmds == 2
MaxBatch == 2
MaxStored == 2
MaxItems == 4
MaxItemSize == 2
MaxViewport == 3
MaxOverscan == 1
MaxTodos == 52
MaxTotal == 2001
MaxActive == 2

(************************** program constants ******************************)
MaxTextLength == 200

UUIDs == 1..NumIds
Whitespace == {" ", "\t"}
FilterTypes == {"all", "active", "completed"}
Priorities == {"undefined", "high"}

Rep(c, n) == [i \in 1..n |-> c]

\* The texts the commands are called with.
Texts ==
    { <<>>,
      <<" ", "\t">>,
      <<" ", "a", " ">>,
      <<" ">> \o Rep("x", MaxTextLength),
      Rep("x", MaxTextLength + 1) }

(***************************** todoHelpers.ts ******************************)
RECURSIVE trimStart(_)
trimStart(s) ==
    IF s # <<>> /\ Head(s) \in Whitespace THEN trimStart(Tail(s)) ELSE s

RECURSIVE trimEnd(_)
trimEnd(s) ==
    IF s # <<>> /\ s[Len(s)] \in Whitespace
    THEN trimEnd(SubSeq(s, 1, Len(s) - 1))
    ELSE s

\* String.prototype.trim
trim(s) == trimEnd(trimStart(s))

validateTodoText_noTrim(text) ==
    IF text = <<>> THEN [valid |-> FALSE, error |-> "Todo text cannot be empty"]
    ELSE IF Len(text) > MaxTextLength
    THEN [valid |-> FALSE, error |-> "Todo text cannot exceed 200 characters"]
    ELSE [valid |-> TRUE, error |-> "undefined"]

validateTodoText(text) ==
    LET trimmed == trim(text) IN
    IF trimmed = <<>> THEN [valid |-> FALSE, error |-> "Todo text cannot be empty"]
    ELSE IF Len(trimmed) > MaxTextLength
    THEN [valid |-> FALSE, error |-> "Todo text cannot exceed 200 characters"]
    ELSE [valid |-> TRUE, error |-> "undefined"]

Least(S) == CHOOSE x \in S : \A y \in S : x <= y

\* An identifier made from the position in the list: free again after a deletion.
generateId_recycle ==
    LET free == UUIDs \ {todos[i].id : i \in DOMAIN todos} IN
    IF free = {} THEN {} ELSE {Least(free)}

\* crypto.randomUUID(): a version 4 UUID, a value it has not returned before.
\* Identifiers are opaque and only compared for equality, so the least value not
\* yet returned stands for every value it may return.
generateId ==
    LET fresh == UUIDs \ issued IN
    IF fresh = {} THEN {} ELSE {Least(fresh)}

\* createTodo(text, priority), with the results of generateId() and new Date()
createTodo(text, priority, id, date) ==
    [ id |-> id,
      text |-> trim(text),
      completed |-> FALSE,
      createdAt |-> date,
      updatedAt |-> date,
      priority |-> priority ]

filterTodos(ts, f) ==
    CASE f = "active" -> SelectSeq(ts, LAMBDA t : ~t.completed)
      [] f = "completed" -> SelectSeq(ts, LAMBDA t : t.completed)
      [] OTHER -> ts

Round_down(num, den) == num \div den

\* Math.round(x) for x = num / den >= 0: the nearest integer, halves up.  The code
\* rounds the double (completed / total) * 100 * 10, which at an exact half can lie
\* just below it (23 of 80); no total below 16 has such a half.
Round(num, den) == (2 * num + den) \div (2 * den)

calculateStats_activeIsTotal(ts) ==
    LET total == Len(ts)
        completed == Len(SelectSeq(ts, LAMBDA t : t.completed))
    IN [ total |-> total, active |-> total, completed |-> completed,
         completionRate10 |-> IF total > 0 THEN Round(1000 * completed, total) ELSE 0 ]

\* completionRate10 is completionRate in tenths: Math.round(rate * 10), before the / 10
statsOf_rateOfActive(total, completed) ==
    [ total |-> total, active |-> total - completed, completed |-> completed,
      completionRate10 |->
          IF total > 0 THEN Round(1000 * (total - completed), total) ELSE 0 ]

statsOf(total, completed) ==
    [ total |-> total, active |-> total - completed, completed |-> completed,
      completionRate10 |-> IF total > 0 THEN Round(1000 * completed, total) ELSE 0 ]

calculateStats(ts) ==
    statsOf(Len(ts), Len(SelectSeq(ts, LAMBDA t : t.completed)))

(**************************** storageService.ts ****************************)
\* What localStorage.getItem(STORAGE_KEY) does.  "absent": it returns null;
\* "throws": it raises; otherwise it returns a string: "empty" is the empty string,
\* "text" a string that is not JSON, "null" the JSON text of null, "scalar" the JSON
\* text of a value that is neither null nor an array (an object, a number, a
\* string, a boolean), and "array" the JSON text of an array, whose elements are json.
NullItem == [kind |-> "absent", json |-> <<>>]
Item(json) == [kind |-> "array", json |-> json]
BadItem(kind) == [kind |-> kind, json |-> <<>>]

\* The elements of a parsed array.  An object is the record of its keys; null and
\* a number are told apart from the objects by a key that no object has.
JsonNull == [jsonNull |-> TRUE]
JsonNumber == [jsonNumber |-> 123]
WrongShape == [wrong |-> "shape"]

\* Date.prototype.toJSON and new Date(isoString)
toISOString(date) == <<"iso", date>>
parseDate(iso) == iso[2]

\* new Date(undefined): the time value of an Invalid Date
InvalidDate == -1

\* JSON.stringify of one record with the priority written as null when it is undefined
toJSON_nullPriority(t) ==
    [ id |-> t.id, text |-> t.text, completed |-> t.completed,
      createdAt |-> toISOString(t.createdAt), updatedAt |-> toISOString(t.updatedAt),
      priority |-> IF t.priority = "undefined" THEN "null" ELSE t.priority ]

\* JSON.stringify of one record: dates become strings, an undefined priority is left out
toJSON(t) ==
    IF t.priority = "undefined"
    THEN [ id |-> t.id, text |-> t.text, completed |-> t.completed,
           createdAt |-> toISOString(t.createdAt), updatedAt |-> toISOString(t.updatedAt) ]
    ELSE [ id |-> t.id, text |-> t.text, completed |-> t.completed,
           createdAt |-> toISOString(t.createdAt), updatedAt |-> toISOString(t.updatedAt),
           priority |-> t.priority ]

stringify(ts) == [i \in 1..Len(ts) |-> toJSON(ts[i])]

\* The keys an element spreads to: an object its own, a number none.
Keys(o) == IF "jsonNumber" \in DOMAIN o THEN {} ELSE DOMAIN o

\* the map callback of getTodos: { ...todo, createdAt: new Date(..), updatedAt: new Date(..) }
\* The result has the keys of the element and the two dates, which are Invalid Dates
\* when the element has none; a priority it does not have reads as undefined.  The
\* callback raises for null only.
revive(o) ==
    [ key \in Keys(o) \cup {"createdAt", "updatedAt", "priority"} |->
        CASE key \in {"createdAt", "updatedAt"} ->
               IF key \in Keys(o) THEN parseDate(o[key]) ELSE InvalidDate
          [] key = "priority" ->
               IF key \in Keys(o) THEN o[key] ELSE "undefined"
          [] OTHER -> o[key] ]

reviveRaises(o) == "jsonNull" \in DOMAIN o

\* getTodos(): whatever is raised inside the try block is caught and [] returned
getTodos(data) ==
    CASE data.kind = "throws" -> <<>>                \* getItem raises
      [] data.kind \in {"absent", "empty"} -> <<>>   \* if (!data) return []
      [] data.kind = "text" -> <<>>                  \* JSON.parse raises
      [] data.kind \in {"null", "scalar"} -> <<>>    \* parsed.map is not a function
      [] OTHER ->
           IF \E i \in 1..Len(data.json) : reviveRaises(data.json[i])
           THEN <<>>
           ELSE [i \in 1..Len(data.json) |-> revive(data.json[i])]

\* saveTodos(todos): the stored item after it, data before; ok is whether
\* localStorage.setItem succeeds
saveTodos(data, ts, ok) == IF ok THEN Item(stringify(ts)) ELSE data

\* no try / catch around setItem
saveTodosThrows_noCatch(ok) == ~ok

\* whether an error leaves saveTodos(todos): what setItem raises is caught and
\* written to the console
saveTodosThrows(ok) == FALSE

(****************************** useTodos.ts ********************************)
\* [newTodo, ...prev] in place of [...prev, newTodo]
addUpdater_prepend(prev, newTodo) == <<newTodo>> \o prev

addUpdater(prev, newTodo) == Append(prev, newTodo)

toggleUpdater_setTrue(prev, id) ==
    [i \in 1..Len(prev) |->
        IF prev[i].id = id THEN [prev[i] EXCEPT !.completed = TRUE] ELSE prev[i]]

toggleUpdater(prev, id) ==
    [i \in 1..Len(prev) |->
        IF prev[i].id = id THEN [prev[i] EXCEPT !.completed = ~@] ELSE prev[i]]

\* splice(findIndex(..), 1) in place of filter: an absent id removes the last record
deleteUpdater_splice(prev, id) ==
    IF \E i \in 1..Len(prev) : prev[i].id = id
    THEN SelectSeq(prev, LAMBDA t : t.id # id)
    ELSE SubSeq(prev, 1, Len(prev) - 1)

deleteUpdater(prev, id) == SelectSeq(prev, LAMBDA t : t.id # id)

updateUpdater_resetCompleted(prev, id, text) ==
    [i \in 1..Len(prev) |->
        IF prev[i].id = id
        THEN [prev[i] EXCEPT !.text = text, !.completed = FALSE]
        ELSE prev[i]]

updateUpdater(prev, id, text) ==
    [i \in 1..Len(prev) |->
        IF prev[i].id = id THEN [prev[i] EXCEPT !.text = text] ELSE prev[i]]

clearUpdater_keepCompleted(prev) == SelectSeq(prev, LAMBDA t : t.completed)

clearUpdater(prev) == SelectSeq(prev, LAMBDA t : ~t.completed)

\* one queued update of todos applied to the state before it
ApplyUpdate(prev, u) ==
    CASE u.op = "set" -> u.value
      [] u.op = "add" -> addUpdater(prev, u.todo)
      [] u.op = "toggle" -> toggleUpdater(prev, u.id)
      [] u.op = "delete" -> deleteUpdater(prev, u.id)
      [] u.op = "update" -> updateUpdater(prev, u.id, u.text)
      [] u.op = "clear" -> clearUpdater(prev)
      [] OTHER -> prev

TodoUpdates(q) == SelectSeq(q, LAMBDA u : u.op # "setFilter")
FilterUpdates(q) == SelectSeq(q, LAMBDA u : u.op = "setFilter")

\* setTodos(value computed from the todos of the render): in a batch the last call wins
processQueue_closure(state, q) ==
    IF q = <<>> THEN state ELSE ApplyUpdate(state, q[Len(q)])

\* setTodos(prev => ...): each queued updater gets the result of the one before it
RECURSIVE processQueue(_, _)
processQueue(state, q) ==
    IF q = <<>> THEN state
    ELSE processQueue(ApplyUpdate(state, Head(q)), Tail(q))

processFilter(f, q) ==
    LET fq == FilterUpdates(q) IN
    IF fq = <<>> THEN f ELSE fq[Len(fq)].filter

\* the dependency lists of the two useMemo calls
filteredDepsChanged_todosOnly(todosChanged, oldFilter, newFilter) == todosChanged

filteredDepsChanged_filterOnly(todosChanged, oldFilter, newFilter) ==
    oldFilter # newFilter

filteredDepsChanged(todosChanged, oldFilter, newFilter) ==
    todosChanged \/ oldFilter # newFilter

\* useMemo(() => calculateStats(todos), []): computed by the first render only
statsDepsChanged_mountOnly(todosChanged, oldFilter, newFilter) == FALSE

\* calculateStats(todos) called in the body of the hook, without useMemo
statsDepsChanged_always(todosChanged, oldFilter, newFilter) == TRUE

statsDepsChanged(todosChanged, oldFilter, newFilter) == todosChanged

\* The dependency list of the save effect, [todos]: a new array is a change.
\* [todos.length] in its place:
saveDepsChanged_lengthOnly(todosChanged, oldTodos, newTodos) ==
    Len(oldTodos) # Len(newTodos)

\* no dependency list: the effect runs after every render
saveDepsChanged_everyRender(todosChanged, oldTodos, newTodos) == TRUE

saveDepsChanged(todosChanged, oldTodos, newTodos) == todosChanged

\* The command handles the hook returns, and the dependency list of the useCallback
\* of each: [] for the five commands; setFilter is the setter useState returned,
\* which React keeps the same.
Handles == {"addTodo", "toggleTodo", "deleteTodo", "updateTodo", "clearCompleted",
            "setFilter"}

\* addTodo written with setTodos([...todos, newTodo]) and the dependency list [todos]
callbackDeps_todos(h) == IF h = "addTodo" THEN {"todos"} ELSE {}

callbackDeps(h) == {}

\* whether useCallback / useMemo with the dependencies deps makes a new value
DepsChanged(deps, todosChanged, filterChanged) ==
    \/ "todos" \in deps /\ todosChanged
    \/ "filter" \in deps /\ filterChanged

NoError == [op |-> "none", text |-> <<>>]
NoToggle == [id |-> 0, n |-> 0, base |-> <<>>, mid |-> <<>>]
Ids(ts) == {ts[i].id : i \in DOMAIN ts}

\* The stored lists the store can be mounted on.
Stored1 == createTodo(<<"b">>, "undefined", 1, 0)
Stored2 == [createTodo(<<"c", "d">>, "high", 2, 0) EXCEPT !.completed = TRUE]
InitialItems == { NullItem, Item(stringify(<<Stored1, Stored2>>)) }

\* The stored items and the lists the storage service is called with on its own.
SeqsUpTo(S, n) == UNION { [1..k -> S] : k \in 0..n }
JsonElements == { toJSON(Stored1), toJSON(Stored2), WrongShape, JsonNumber, JsonNull }
Payloads ==
    { NullItem }
    \cup { BadItem(kind) : kind \in {"throws", "empty", "text", "null", "scalar"} }
    \cup { Item(json) : json \in SeqsUpTo(JsonElements, MaxStored) }
RecordLists == SeqsUpTo({Stored1, Stored2}, MaxStored)

(************** components/VariableTodoList.tsx and App.tsx ****************)
\* The props App passes to VirtualTodoList and the option the component gives the
\* virtualizer.
itemHeight == 80
height == 600
Overscan == 5

\* App shows the FilteredView through VirtualTodoList above this length.
VirtualizationThreshold == 50

Max(a, b) == IF a >= b THEN a ELSE b
Min(a, b) == IF a <= b THEN a ELSE b
\* Math.floor(a / b) and Math.ceil(a / b) for b > 0
Floor(a, b) == a \div b
Ceil(a, b) == -((-a) \div b)

\* virtualizer.getTotalSize(): the height of the inner container
totalExtent(n, size) == n * size

\* The top position of item i in the full extent.
offsets(i, size) == i * size

\* The scroll positions the container can be at: an offset outside is clamped.
clampOffset(n, size, viewport, offset) ==
    Max(0, Min(offset, Max(0, totalExtent(n, size) - viewport)))

computeWindow_endBefore(n, size, viewport, offset, margin) ==
    LET s == clampOffset(n, size, viewport, offset)
    IN [ startIndex |-> Max(0, Floor(s, size) - margin),
         endIndex |-> Min(n - 1, Floor(s + viewport, size) - 1 + margin) ]

computeWindow_noClamp(n, size, viewport, offset, margin) ==
    [ startIndex |-> Max(0, Floor(offset, size) - margin),
      endIndex |-> Min(n - 1, Ceil(offset + viewport, size) + margin) ]

\* virtualizer.getVirtualItems(): the indices from startIndex to endIndex are
\* materialized; with n = 0 endIndex is -1 and the window is empty.
computeWindow(n, size, viewport, offset, margin) ==
    LET s == clampOffset(n, size, viewport, offset)
    IN [ startIndex |-> Max(0, Floor(s, size) - margin),
         endIndex |-> Min(n - 1, Ceil(s + viewport, size) + margin) ]

WindowIndices(w) == w.startIndex .. w.endIndex

useVirtualization_atLeast(n) == n >= VirtualizationThreshold

\* const useVirtualization = todos.length > 50
useVirtualization(n) == n > VirtualizationThreshold

\* What App shows for a FilteredView of length n: TodoList, or VirtualTodoList inside
\* Suspense, whose fallback shows until the lazily imported module is there.
chooseRenderer(n, module) ==
    IF useVirtualization(n)
    THEN IF module = "loaded" THEN "virtual" ELSE "fallback"
    ELSE "plain"

\* lazy(() => import(...)): the import starts when VirtualTodoList is first rendered
startImport(n, module) ==
    IF useVirtualization(n) /\ module = "idle" THEN "pending" ELSE module

\* The list components before any FilteredView reached them.
FirstList ==
    /\ itemCount = 0
    /\ itemSize = itemHeight
    /\ viewportSize = height
    /\ overscan = Overscan
    /\ scrollOffset = 0
    /\ window = computeWindow(0, itemHeight, height, 0, Overscan)
    /\ lazy = "idle"
    /\ renderer = "plain"

\* The state of a store that has rendered once and run no effect yet.
FirstRender ==
    /\ todos = <<>>
    /\ filter = "all"
    /\ queue = <<>>
    /\ filteredTodos = filterTodos(<<>>, "all")
    /\ stats = calculateStats(<<>>)
    /\ isInitialMount = TRUE
    /\ mounted = FALSE
    /\ lastSaved = <<>>
    /\ uncaught = FALSE
    /\ loaded = <<>>
    /\ now = 0
    /\ thrown = NoError
    /\ ncalls = 0
    /\ seq = <<>>
    /\ tg = NoToggle
    /\ everIds = {}
    /\ lastBatch = <<>>
    /\ prevTodos = <<>>
    /\ saveCalls = 0
    /\ renewed = {}
    /\ wasStale = FALSE
    /\ unmounted = <<>>

Init ==
    /\ FirstRender
    /\ FirstList
    /\ strict \in BOOLEAN
    /\ storage \in InitialItems
    /\ issued = Ids(getTodos(storage))

\* What outlives a render besides the state: the ref and the storage.  saveCalls
\* counts the save calls of one flush of effects.
Persist ==
    [ isInitialMount |-> isInitialMount, storage |-> storage, lastSaved |-> lastSaved,
      uncaught |-> uncaught, saveCalls |-> 0 ]

SetPersist(p) ==
    /\ isInitialMount' = p.isInitialMount
    /\ storage' = p.storage
    /\ lastSaved' = p.lastSaved
    /\ uncaught' = p.uncaught
    /\ saveCalls' = p.saveCalls

\* if (todos.length === 0) return; before the save
saveEffect_skipEmpty(p, ts, ok) ==
    IF p.isInitialMount
    THEN [p EXCEPT !.isInitialMount = FALSE]
    ELSE IF ts = <<>> THEN p
    ELSE [p EXCEPT !.storage = saveTodos(p.storage, ts, ok), !.lastSaved = <<ts>>,
                   !.uncaught = @ \/ saveTodosThrows(ok), !.saveCalls = @ + 1]

\* The effect of lines 37-43, run with the todos of its render: skip the first run,
\* then save.
saveEffect(p, ts, ok) ==
    IF p.isInitialMount
    THEN [p EXCEPT !.isInitialMount = FALSE]
    ELSE [p EXCEPT !.storage = saveTodos(p.storage, ts, ok), !.lastSaved = <<ts>>,
                   !.uncaught = @ \/ saveTodosThrows(ok), !.saveCalls = @ + 1]

\* The effect of lines 30-33: the update queued by setTodos(storageService.getTodos())
loadEffect(data) == [op |-> "set", value |-> getTodos(data)]

\* Whether storage does not hold what the store's last save call was given: that
\* call's setItem had raised.
Stale == lastSaved # <<>> /\ storage # Item(stringify(lastSaved[1]))

\* The effects of the first render.  React.StrictMode (main.tsx) runs them a second
\* time in the same flush, on the same refs and with the values of the first render.
\* oks: whether localStorage.setItem may succeed (TRUE) and may raise (FALSE).
MountWith(oks) ==
    /\ ~mounted
    /\ \E ok \in oks :
         LET u1 == loadEffect(storage)
             p1 == saveEffect(Persist, todos, ok)
             u2 == loadEffect(p1.storage)
             p2 == saveEffect(p1, todos, ok)
         IN /\ queue' = IF strict THEN <<u1, u2>> ELSE <<u1>>
            /\ seq' = IF strict THEN u2.value ELSE u1.value
            /\ SetPersist(IF strict THEN p2 ELSE p1)
    /\ mounted' = TRUE
    /\ UNCHANGED <<todos, filter, filteredTodos, stats, strict, loaded, now, issued,
                   thrown, ncalls, tg, everIds, lastBatch, prevTodos, renewed, wasStale,
                   unmounted>>
    /\ UNCHANGED listVars

Mount == MountWith(BOOLEAN)

\* A render and its effects: the queued updates are processed in order, the memoized
\* values and callbacks are made anew when a dependency changed, and the save effect
\* runs when todos changed (every update of todos makes a new array).
RenderWith(oks) ==
    /\ mounted
    /\ queue # <<>>
    /\ \E ok \in oks :
         LET todosChanged == TodoUpdates(queue) # <<>>
             newTodos == processQueue(todos, TodoUpdates(queue))
             newFilter == processFilter(filter, queue)
             newFiltered == filteredDepsChanged(todosChanged, filter, newFilter)
             newStats == statsDepsChanged(todosChanged, filter, newFilter)
         IN /\ todos' = newTodos
            /\ filter' = newFilter
            /\ filteredTodos' = IF newFiltered THEN filterTodos(newTodos, newFilter)
                                ELSE filteredTodos
            /\ stats' = IF newStats THEN calculateStats(newTodos) ELSE stats
            /\ SetPersist(IF saveDepsChanged(todosChanged, todos, newTodos)
                          THEN saveEffect(Persist, newTodos, ok)
                          ELSE Persist)
            /\ everIds' = everIds \cup Ids(newTodos)
            /\ renewed' = (IF todosChanged THEN {"todos"} ELSE {})
                          \cup (IF newFilter # filter THEN {"filter"} ELSE {})
                          \cup (IF newFiltered THEN {"filteredTodos"} ELSE {})
                          \cup (IF newStats THEN {"stats"} ELSE {})
                          \cup {h \in Handles :
                                  DepsChanged(callbackDeps(h), todosChanged,
                                              newFilter # filter)}
    /\ queue' = <<>>
    /\ lastBatch' = queue
    /\ prevTodos' = todos
    /\ wasStale' = Stale
    /\ UNCHANGED <<mounted, strict, loaded, now, issued, thrown, ncalls, seq, tg, unmounted>>
    /\ UNCHANGED listVars

Render == RenderWith(BOOLEAN)

\* The store is unmounted (the component goes, or the page is reloaded): its state,
\* its ref and its handles are gone, the storage stays, and the next mount makes a
\* new store.  One store and the store after it are followed.
Unmount ==
    /\ mounted
    /\ queue = <<>>
    /\ unmounted = <<>>
    /\ unmounted' = <<todos>>
    /\ todos' = <<>>
    /\ filter' = "all"
    /\ filteredTodos' = filterTodos(<<>>, "all")
    /\ stats' = calculateStats(<<>>)
    /\ isInitialMount' = TRUE
    /\ mounted' = FALSE
    /\ lastSaved' = <<>>
    /\ saveCalls' = 0
    /\ thrown' = NoError
    /\ seq' = <<>>
    /\ tg' = NoToggle
    /\ lastBatch' = <<>>
    /\ prevTodos' = <<>>
    /\ renewed' = {}
    /\ wasStale' = FALSE
    /\ UNCHANGED <<queue, strict, storage, uncaught, loaded, now, issued, ncalls, everIds>>
    /\ UNCHANGED listVars

\* new Date(): only createTodo reads the clock, and each reading is later than the
\* one before it (two readings in one millisecond are not told apart).
newDate == now + 1

\* The identifiers a caller passes: those of the records there are or were, and one
\* that no record ever had.
IdInputs ==
    issued \cup (IF UUIDs \ issued = {} THEN {} ELSE {Least(UUIDs \ issued)})

CanCall == mounted /\ ncalls < MaxCmds /\ Len(queue) < MaxBatch

\* throw new Error(validation.error): nothing but the error leaves the call
Throw(op, text) ==
    /\ thrown' = [op |-> op, text |-> text]
    /\ ncalls' = ncalls + 1
    /\ tg' = NoToggle
    /\ UNCHANGED <<todos, filter, queue, filteredTodos, stats, isInitialMount, mounted,
                   strict, storage, lastSaved, uncaught, loaded, now, issued, seq, everIds,
                   lastBatch, prevTodos, saveCalls, renewed, wasStale, unmounted>>
    /\ UNCHANGED listVars

\* setTodos(updater) / setFilter(value): the update is queued for the next render
Enqueue(u) ==
    /\ queue' = Append(queue, u)
    /\ seq' = ApplyUpdate(seq, u)
    /\ thrown' = NoError
    /\ ncalls' = ncalls + 1
    /\ UNCHANGED <<todos, filter, filteredTodos, stats, isInitialMount, mounted, strict,
                   storage, lastSaved, uncaught, loaded, everIds, lastBatch, prevTodos,
                   saveCalls, renewed, wasStale, unmounted>>
    /\ UNCHANGED listVars

\* addTodo(text, priority); the queued update also records the arguments of the call
addTodo(text, priority) ==
    /\ CanCall
    /\ IF ~validateTodoText(text).valid
       THEN Throw("add", text)
       ELSE \E id \in generateId :
              /\ Enqueue([op |-> "add", todo |-> createTodo(text, priority, id, newDate),
                          text |-> text, priority |-> priority])
              /\ issued' = issued \cup {id}
              /\ now' = newDate
              /\ tg' = NoToggle

toggleTodo(id) ==
    /\ CanCall
    /\ Enqueue([op |-> "toggle", id |-> id])
    /\ tg' = IF tg.n >= 1 /\ tg.id = id
             THEN [id |-> id, n |-> 2, base |-> tg.mid, mid |-> seq]
             ELSE [id |-> id, n |-> 1, base |-> seq, mid |-> seq]
    /\ UNCHANGED <<issued, now>>

deleteTodo(id) ==
    /\ CanCall
    /\ Enqueue([op |-> "delete", id |-> id])
    /\ tg' = NoToggle
    /\ UNCHANGED <<issued, now>>

updateTodo(id, text) ==
    /\ CanCall
    /\ IF ~validateTodoText(text).valid
       THEN Throw("update", text)
       ELSE /\ Enqueue([op |-> "update", id |-> id, text |-> text])
            /\ tg' = NoToggle
            /\ UNCHANGED <<issued, now>>

clearCompleted ==
    /\ CanCall
    /\ Enqueue([op |-> "clear"])
    /\ tg' = NoToggle
    /\ UNCHANGED <<issued, now>>

setFilter(f) ==
    /\ CanCall
    /\ Enqueue([op |-> "setFilter", filter |-> f])
    /\ tg' = NoToggle
    /\ UNCHANGED <<issued, now>>

Next ==
    \/ Mount
    \/ Render
    \/ \E text \in Texts, priority \in Priorities : addTodo(text, priority)
    \/ \E id \in IdInputs : toggleTodo(id)
    \/ \E id \in IdInputs : deleteTodo(id)
    \/ \E id \in IdInputs, text \in Texts : updateTodo(id, text)
    \/ clearCompleted
    \/ \E f \in FilterTypes : setFilter(f)

Spec == Init /\ [][Next]_vars

\* A store, then its unmount and the store mounted after it on the same storage,
\* with every localStorage.setItem succeeding.
NextReload ==
    \/ MountWith({TRUE})
    \/ RenderWith({TRUE})
    \/ Unmount
    \/ \E text \in Texts, priority \in Priorities : addTodo(text, priority)
    \/ \E id \in IdInputs : toggleTodo(id)
    \/ \E id \in IdInputs : deleteTodo(id)
    \/ \E id \in IdInputs, text \in Texts : updateTodo(id, text)
    \/ clearCompleted
    \/ \E f \in FilterTypes : setFilter(f)

SpecReload == Init /\ [][NextReload]_vars

\* The storage service called on its own, as its tests do: saveTodos with a list of
\* records, getTodos on whatever is stored.
InitStorage ==
    /\ FirstRender
    /\ FirstList
    /\ strict = FALSE
    /\ storage \in Payloads
    /\ issued = {}

ServiceSave ==
    /\ \E ts \in RecordLists, ok \in BOOLEAN :
         /\ storage' = saveTodos(storage, ts, ok)
         /\ lastSaved' = <<ts>>
         /\ uncaught' = (uncaught \/ saveTodosThrows(ok))
    /\ loaded' = <<>>
    /\ UNCHANGED <<todos, filter, queue, filteredTodos, stats, isInitialMount, mounted,
                   strict, now, issued, thrown, ncalls, seq, tg, everIds, lastBatch,
                   prevTodos, saveCalls, renewed, wasStale, unmounted>>
    /\ UNCHANGED listVars

ServiceLoad ==
    /\ loaded' = <<getTodos(storage)>>
    /\ UNCHANGED <<todos, filter, queue, filteredTodos, stats, isInitialMount, mounted,
                   strict, storage, lastSaved, uncaught, now, issued, thrown, ncalls, seq,
                   tg, everIds, lastBatch, prevTodos, saveCalls, renewed, wasStale,
                   unmounted>>
    /\ UNCHANGED listVars

NextStorage == ServiceSave \/ ServiceLoad

SpecStorage == InitStorage /\ [][NextStorage]_vars

\* VirtualTodoList on its own, as its tests render it: any list length, any props,
\* and scroll events reporting any position.
NoStore ==
    /\ FirstRender
    /\ strict = FALSE
    /\ storage = NullItem
    /\ issued = {}

ScrollOffsets == -1 .. (MaxItems * MaxItemSize + 1)

InitWindow ==
    /\ NoStore
    /\ itemCount \in 0..MaxItems
    /\ itemSize \in 1..MaxItemSize
    /\ viewportSize \in 1..MaxViewport
    /\ overscan \in 0..MaxOverscan
    /\ scrollOffset = 0
    /\ window = computeWindow(itemCount, itemSize, viewportSize, 0, overscan)
    /\ lazy = "loaded"
    /\ renderer = "virtual"

storeVars == <<todos, filter, queue, filteredTodos, stats, isInitialMount, mounted, strict,
               storage, lastSaved, uncaught, loaded, now, issued, thrown, ncalls, seq, tg,
               everIds, lastBatch, prevTodos, saveCalls, renewed, wasStale, unmounted>>

\* a scroll event: the virtualizer computes the window anew
Scroll(offset) ==
    /\ scrollOffset' = offset
    /\ window' = computeWindow(itemCount, itemSize, viewportSize, offset, overscan)
    /\ UNCHANGED <<itemCount, itemSize, viewportSize, overscan, lazy, renderer>>
    /\ UNCHANGED storeVars

\* a render with a list of another length
SetTodos(n) ==
    /\ itemCount' = n
    /\ window' = computeWindow(n, itemSize, viewportSize, scrollOffset, overscan)
    /\ UNCHANGED <<itemSize, viewportSize, overscan, scrollOffset, lazy, renderer>>
    /\ UNCHANGED storeVars

NextWindow ==
    \/ \E offset \in ScrollOffsets : Scroll(offset)
    \/ \E n \in 0..MaxItems : SetTodos(n)

SpecWindow == InitWindow /\ [][NextWindow]_vars

\* App given FilteredViews of any length by the store.
InitApp ==
    /\ NoStore
    /\ FirstList

AppRender(n) ==
    /\ itemCount' = n
    /\ lazy' = startImport(n, lazy)
    /\ renderer' = chooseRenderer(n, lazy)
    /\ window' = computeWindow(n, itemSize, viewportSize, scrollOffset, overscan)
    /\ UNCHANGED <<itemSize, viewportSize, overscan, scrollOffset>>
    /\ UNCHANGED storeVars

\* the import resolves and Suspense renders again
LazyResolve ==
    /\ lazy = "pending"
    /\ lazy' = "loaded"
    /\ renderer' = chooseRenderer(itemCount, "loaded")
    /\ UNCHANGED <<itemCount, itemSize, viewportSize, overscan, scrollOffset, window>>
    /\ UNCHANGED storeVars

NextApp ==
    \/ \E n \in 0..MaxTodos : AppRender(n)
    \/ LazyResolve

SpecApp == InitApp /\ [][NextApp]_vars


\* calculateStats called on lists of any length, as its tests do.  The records of
\* the list are not kept, only the two numbers calculateStats reads from it: the
\* list grows by one record per call, active records first.
InitStats ==
    /\ NoStore
    /\ FirstList

CalculateNext(done) ==
    /\ stats.total < MaxTotal
    /\ ~done => (stats.completed = 0 /\ stats.total < MaxActive)
    /\ stats' = statsOf(stats.total + 1, stats.completed + (IF done THEN 1 ELSE 0))
    /\ UNCHANGED <<todos, filter, queue, filteredTodos, isInitialMount, mounted, strict,
                   storage, lastSaved, uncaught, loaded, now, issued, thrown, ncalls, seq,
                   tg, everIds, lastBatch, prevTodos, saveCalls, renewed, wasStale,
                   unmounted>>
    /\ UNCHANGED listVars

NextStats == \E done \in BOOLEAN : CalculateNext(done)

SpecStats == InitStats /\ [][NextStats]_vars

(******************************* properties ********************************)
Matches(t, f) ==
    CASE f = "all" -> TRUE
      [] f = "active" -> ~t.completed
      [] f = "completed" -> t.completed

ValidText(text) == Len(trim(text)) >= 1 /\ Len(trim(text)) <= MaxTextLength

\* The last render processed exactly one update, made by command op.
LastWas(op) == Len(lastBatch) = 1 /\ lastBatch[1].op = op

\* C1: in every state the Stats satisfy active + completed = total, and total is
\* the number of records in the Collection.
C1_StatsConsistent ==
    /\ stats.active + stats.completed = stats.total
    /\ stats.total = Len(todos)

C1_Witness ==
    /\ ncalls >= 2
    /\ queue = <<>>
    /\ stats.active >= 1
    /\ stats.completed >= 1
    /\ todos # prevTodos

\* C2: in every state the FilteredView is the subsequence of the Collection, in
\* its order, of exactly the records that match the Filter.
C2_FilteredViewExact ==
    filteredTodos = SelectSeq(todos, LAMBDA t : Matches(t, filter))

C2_Witness ==
    /\ filter = "completed"
    /\ lastBatch # <<>>
    /\ TodoUpdates(lastBatch) = <<>>
    /\ Len(filteredTodos) = 1
    /\ Len(todos) = 2

\* C3: once every queued update is rendered, the Collection is the result of
\* applying each command in turn to the Collection the command before it left,
\* whether the commands were rendered one by one or several in one batch.
C3_CommandsInOrder == (mounted /\ queue = <<>>) => todos = seq

C3_Witness ==
    /\ queue = <<>>
    /\ Len(lastBatch) = 2
    /\ lastBatch[1].op = "add"
    /\ lastBatch[2].op = "toggle"
    /\ lastBatch[2].id = lastBatch[1].todo.id
    /\ prevTodos # <<>>

\* C4: add succeeds exactly when the trimmed text has 1 to 200 characters, and a
\* successful add appends one record, with an identifier no record had, not
\* completed and with the given priority, leaving the records before it as they were.
C4_AddAppends ==
    /\ thrown.op = "add" => ~ValidText(thrown.text)
    /\ \A i \in DOMAIN queue : queue[i].op = "add" => ValidText(queue[i].text)
    /\ LastWas("add") =>
         /\ ValidText(lastBatch[1].text)
         /\ Len(todos) = Len(prevTodos) + 1
         /\ SubSeq(todos, 1, Len(prevTodos)) = prevTodos
         /\ todos[Len(todos)].id \notin Ids(prevTodos)
         /\ todos[Len(todos)].completed = FALSE
         /\ todos[Len(todos)].priority = lastBatch[1].priority

C4_Witness ==
    /\ LastWas("add")
    /\ lastBatch[1].priority = "high"
    /\ Len(lastBatch[1].text) > MaxTextLength
    /\ Len(prevTodos) = 2

\* C5: a call of add or edit with a text that is empty after trimming or longer
\* than 200 characters throws, and changes neither the Collection, the Filter,
\* the FilteredView, the Stats, the queued updates nor what is stored or was saved.
C5_ValidationFailureChangesNothing ==
    [][ /\ \A i \in DOMAIN queue' :
             queue'[i].op \in {"add", "update"} => ValidText(queue'[i].text)
        /\ (ncalls' # ncalls /\ thrown' # NoError) =>
             /\ thrown'.op \in {"add", "update"}
             /\ ~ValidText(thrown'.text)
             /\ UNCHANGED <<todos, filter, filteredTodos, stats, queue, storage,
                            lastSaved, isInitialMount>>
      ]_vars

C5_Witness ==
    /\ thrown.op = "update"
    /\ thrown.text # <<>>
    /\ trim(thrown.text) = <<>>
    /\ todos # <<>>
    /\ queue # <<>>

\* C6: a successful edit changes nothing but the text of the record with the given
\* identifier: the number and order of the records, every other record, and the
\* other fields of that record stay as they were.
C6_EditChangesOnlyText ==
    LastWas("update") =>
        /\ Len(todos) = Len(prevTodos)
        /\ \A i \in 1..Len(todos) :
             /\ [todos[i] EXCEPT !.text = prevTodos[i].text] = prevTodos[i]
             /\ todos[i].id # lastBatch[1].id => todos[i] = prevTodos[i]

C6_Witness ==
    /\ LastWas("update")
    /\ Len(todos) = 2
    /\ \E i \in 1..Len(todos) :
         /\ todos[i].id = lastBatch[1].id
         /\ todos[i].completed
         /\ todos[i].text # prevTodos[i].text

\* C7: after two toggle calls of one identifier in succession, with no other
\* command between them, the Collection is what it was before the first.
C7_ToggleTwiceRestores ==
    (mounted /\ queue = <<>> /\ tg.n = 2) => todos = tg.base

C7_Witness ==
    /\ queue = <<>>
    /\ tg.n = 2
    /\ LastWas("toggle")
    /\ Len(todos) = 2
    /\ tg.id \in Ids(todos)

\* C8: toggle and remove with an identifier that no record has leave the
\* Collection as it was, and no command but add and edit ever throws.
C8_AbsentIdIsNoOp ==
    /\ thrown.op \in {"none", "add", "update"}
    /\ ( /\ Len(lastBatch) = 1
         /\ lastBatch[1].op \in {"toggle", "delete"}
         /\ lastBatch[1].id \notin Ids(prevTodos) ) => todos = prevTodos

C8_Witness ==
    /\ LastWas("delete")
    /\ lastBatch[1].id \notin Ids(prevTodos)
    /\ Len(prevTodos) = 2

\* C9: no two records of the Collection have the same identifier, and the
\* identifier add gives a record is that of no record that is or ever was in the
\* Collection, is being loaded from storage, or is given by another add.
C9_IdsUniqueNeverRecycled ==
    /\ \A i, j \in DOMAIN todos : todos[i].id = todos[j].id => i = j
    /\ \A i \in DOMAIN queue : queue[i].op = "add" =>
         /\ queue[i].todo.id \notin everIds \cup Ids(todos)
         /\ \A j \in DOMAIN queue :
              /\ (j # i /\ queue[j].op = "add") => queue[j].todo.id # queue[i].todo.id
              /\ queue[j].op = "set" => queue[i].todo.id \notin Ids(queue[j].value)

C9_Witness ==
    /\ \E i \in DOMAIN queue : queue[i].op = "add"
    /\ everIds \ Ids(todos) # {}

\* C10: every record of the Collection holds a trimmed text of 1 to 200 characters.
C10_StoredTextTrimmed ==
    \A i \in DOMAIN todos :
        /\ todos[i].text = trim(todos[i].text)
        /\ Len(todos[i].text) >= 1
        /\ Len(todos[i].text) <= MaxTextLength

\* No command has been called since the mount: only the load effect queued updates.
OnlyLoaded(q) == \A i \in DOMAIN q : q[i].op = "set"

\* C11: whenever the store is quiescent (the first render done, no update queued),
\* hence after every mutating command, the list given to the most recent save call
\* is the current Collection, record for record and in the same order.
C11_SavedAfterEveryCommand ==
    (mounted /\ queue = <<>>) => lastSaved = <<todos>>

C11_Witness ==
    /\ mounted
    /\ queue = <<>>
    /\ LastWas("clear")
    /\ saveCalls = 1
    /\ todos = <<>>
    /\ prevTodos # <<>>

\* Two lists have the same number of records, and the records at each place the
\* same identifier, text, completion flag, priority and creation timestamp.
SameRecords(a, b) ==
    /\ Len(a) = Len(b)
    /\ \A i \in 1..Len(a) :
         \A key \in {"id", "text", "completed", "priority", "createdAt"} :
            /\ key \in DOMAIN a[i]
            /\ key \in DOMAIN b[i]
            /\ a[i][key] = b[i][key]

\* C12 as stated: for every list of records, what load returns after save is the
\* list that was saved (identifier, text, completion flag, priority, creation
\* timestamp, number and order of the records).
C12_RoundTrip ==
    (loaded # <<>> /\ lastSaved # <<>>) => SameRecords(loaded[1], lastSaved[1])

\* C12 as amended: the same, when the write of the save succeeded.
C12_RoundTripWhenWritten ==
    (loaded # <<>> /\ lastSaved # <<>> /\ ~Stale) => SameRecords(loaded[1], lastSaved[1])

C12_Witness ==
    /\ loaded # <<>>
    /\ lastSaved = << <<Stored1, Stored2>> >>
    /\ ~Stale
    /\ storage.kind = "array"

\* C13: with every save succeeding, the Collection of a store right after its mount
\* on the storage another store left has the same records, in the same order and
\* with the same text and completion flags, as that store had when it unmounted.
C13_ReloadRestores ==
    (mounted /\ queue = <<>> /\ unmounted # <<>> /\ lastBatch # <<>> /\ OnlyLoaded(lastBatch))
        => /\ Len(todos) = Len(unmounted[1])
           /\ \A i \in 1..Len(todos) :
                /\ todos[i].id = unmounted[1][i].id
                /\ todos[i].text = unmounted[1][i].text
                /\ todos[i].completed = unmounted[1][i].completed

C13_Witness ==
    /\ mounted
    /\ queue = <<>>
    /\ unmounted # <<>>
    /\ lastBatch # <<>>
    /\ OnlyLoaded(lastBatch)
    /\ strict
    /\ ncalls >= 2
    /\ Len(todos) >= 2
    /\ \E i \in 1..Len(todos) : todos[i].completed /\ todos[i].text # trim(todos[i].text)

\* C14: no error leaves save; the only error a caller of a command gets is the
\* validation error of the text it passed; and when the write of a save failed, the
\* Collection, the FilteredView and the Stats still reflect every command.
C14_SaveFailureSwallowed ==
    /\ ~uncaught
    /\ thrown.op # "none" => ~ValidText(thrown.text)
    /\ (mounted /\ queue = <<>> /\ Stale) =>
         /\ todos = seq
         /\ filteredTodos = filterTodos(seq, filter)
         /\ stats = calculateStats(seq)

C14_Witness ==
    /\ mounted
    /\ queue = <<>>
    /\ Stale
    /\ saveCalls = 1
    /\ LastWas("add")
    /\ thrown = NoError
    /\ todos # prevTodos

\* C15: a render that did not change the Collection makes no save call, so a failed
\* save stays failed until the Collection changes; and a save that succeeds leaves in
\* storage the current Collection, the result of every command so far, those whose
\* save had failed included.
C15_NoRetryNextSaveComplete ==
    /\ (lastBatch # <<>> /\ TodoUpdates(lastBatch) = <<>>) =>
         (saveCalls = 0 /\ (wasStale => Stale))
    /\ (mounted /\ queue = <<>> /\ saveCalls = 1 /\ ~Stale) => getTodos(storage) = seq

C15_Witness ==
    /\ mounted
    /\ queue = <<>>
    /\ wasStale
    /\ ~Stale
    /\ saveCalls = 1
    /\ ncalls >= 2
    /\ Len(lastBatch) = 1
    /\ todos # prevTodos

\* A stored payload is an array of records.
IsRecord(o) == {"id", "text", "completed", "createdAt", "updatedAt"} \subseteq DOMAIN o
IsRecordArray(data) ==
    data.kind = "array" /\ \A i \in 1..Len(data.json) : IsRecord(data.json[i])

\* C16: load never raises, and returns an empty list unless an array of records is
\* stored.
C16_LoadEmptyUnlessRecords ==
    loaded # <<>> => (~uncaught /\ (loaded[1] # <<>> => IsRecordArray(storage)))

\* C17: while no command has been called, every save call made during or after the
\* mount carries the loaded list, and storage still holds that list.
C17_InitNeverSavesEmpty ==
    (mounted /\ OnlyLoaded(queue) /\ OnlyLoaded(lastBatch)) =>
        /\ lastSaved # <<>> => lastSaved[1] = seq
        /\ getTodos(storage) = seq

\* C18: no render changes the identity of a command handle.
C18_HandlesStable == renewed \cap Handles = {}

C18_Witness ==
    /\ {"todos", "filter", "filteredTodos", "stats"} \subseteq renewed
    /\ Len(lastBatch) = 2
    /\ todos # prevTodos

\* C19: a render in which neither the Collection nor the Filter changed keeps the
\* identity of the FilteredView, a render in which the Collection did not change
\* keeps that of the Stats, and a render of setFilter calls only leaves the
\* Collection and the Stats as they were, in value and identity, and makes no save.
C19_MemoIdentityKept ==
    /\ ("todos" \notin renewed /\ "filter" \notin renewed) => "filteredTodos" \notin renewed
    /\ "todos" \notin renewed => "stats" \notin renewed
    /\ (lastBatch # <<>> /\ \A i \in DOMAIN lastBatch : lastBatch[i].op = "setFilter") =>
         /\ todos = prevTodos
         /\ stats = calculateStats(prevTodos)
         /\ "todos" \notin renewed
         /\ "stats" \notin renewed
         /\ saveCalls = 0

C19_Witness ==
    /\ LastWas("setFilter")
    /\ renewed = {"filter", "filteredTodos"}
    /\ filter = "active"
    /\ Len(todos) = 2
    /\ Len(filteredTodos) = 1

\* C20 as stated: once the first render is done, what the store returns reflects
\* every command that has been called, also before the render that follows the call.
C20_VisibleToNextRead ==
    (mounted /\ lastBatch # <<>> /\ queue # <<>>) =>
        /\ todos = seq
        /\ filter = processFilter(filter, queue)
        /\ filteredTodos = filterTodos(seq, processFilter(filter, queue))
        /\ stats = calculateStats(seq)

\* C20 as amended: once the render that follows the calls is done, what the store
\* returns reflects every command called so far: the Collection is the result of
\* the commands, the Filter the one last set, and the FilteredView and the Stats are
\* those of that Collection and Filter.
C20_VisibleAfterRender ==
    (mounted /\ queue = <<>>) =>
        /\ todos = seq
        /\ FilterUpdates(lastBatch) # <<>> => filter = processFilter(filter, lastBatch)
        /\ filteredTodos = filterTodos(seq, filter)
        /\ stats = calculateStats(seq)

C20_Witness ==
    /\ mounted
    /\ queue = <<>>
    /\ Len(lastBatch) = 2
    /\ lastBatch[1].op = "toggle"
    /\ lastBatch[2].op = "setFilter"
    /\ filter = "completed"
    /\ todos # prevTodos
    /\ Len(filteredTodos) = 2
    /\ stats.completed = 2
    /\ stats.total = 2

\* The scroll positions the container can be at.
InScrollRange ==
    scrollOffset >= 0
    /\ scrollOffset <= Max(0, totalExtent(itemCount, itemSize) - viewportSize)

\* The items whose top lies in the viewport.
Visible ==
    {i \in 0..(itemCount - 1) :
        /\ offsets(i, itemSize) >= scrollOffset
        /\ offsets(i, itemSize) < scrollOffset + viewportSize}

\* C21: window coverage: with the scroll offset in the scrollable range, every item
\* whose top position lies in [scrollOffset, scrollOffset + viewportSize) has its
\* index between startIndex and endIndex.
C21_WindowCoverage ==
    (itemCount > 0 /\ InScrollRange) => Visible \subseteq WindowIndices(window)

\* a window that starts after the first item and ends before the last one
C21_Witness ==
    /\ itemCount > 0
    /\ InScrollRange
    /\ window.startIndex > 0
    /\ window.endIndex < itemCount - 1
    /\ Visible # {}
    /\ Visible \subseteq WindowIndices(window)

\* C22: window minimality with overscan: the window holds at most
\* ceil(viewportSize / itemSize) + 2 * overscan + 1 items.
C22_WindowMinimal ==
    (itemCount > 0 /\ InScrollRange) =>
        window.endIndex - window.startIndex + 1
            <= Ceil(viewportSize, itemSize) + 2 * overscan + 1

Materialized ==
    CASE renderer = "plain" -> 0 .. (itemCount - 1)
      [] renderer = "virtual" -> WindowIndices(window)
      [] OTHER -> {}

NearestTenth ==
    LET diff == stats.completionRate10 * stats.total - 1000 * stats.completed
    IN 2 * diff <= stats.total /\ -2 * diff <= stats.total

\* C27 as stated: completionRate is 0 for an empty Collection, otherwise
\* completed / total * 100 rounded to one decimal; it lies between 0 and 100, and
\* it is 100 exactly when every record of a non-empty Collection is completed.
C27_CompletionRate ==
    /\ stats.total = 0 => stats.completionRate10 = 0
    /\ stats.total > 0 => NearestTenth
    /\ stats.completionRate10 \in 0..1000
    /\ stats.completionRate10 = 1000 <=>
          (stats.total > 0 /\ stats.completed = stats.total)

\* C27: completionRate is 0 for an empty Collection, otherwise completed / total *
\* 100 rounded to one decimal; it lies between 0 and 100; it is 100 when every
\* record of a non-empty Collection is completed, and when it is 100 at most one
\* record in 2000 is active.
C27_CompletionRateRounded ==
    /\ stats.total = 0 => stats.completionRate10 = 0
    /\ stats.total > 0 => NearestTenth
    /\ stats.completionRate10 \in 0..1000
    /\ (stats.total > 0 /\ stats.completed = stats.total) => stats.completionRate10 = 1000
    /\ stats.completionRate10 = 1000 =>
          (stats.total > 0 /\ stats.total >= 2000 * stats.active)

\* 2000 of 2001 records completed: 99.95...% is shown as 100
C27_Witness ==
    /\ stats.total = 2001
    /\ stats.completed = 2000
    /\ stats.active = 1
    /\ stats.completionRate10 = 1000

NoOpRendered ==
    /\ Len(lastBatch) = 1
    /\ \/ /\ lastBatch[1].op \in {"toggle", "delete"}
          /\ lastBatch[1].id \notin Ids(prevTodos)
       \/ /\ lastBatch[1].op = "clear"
          /\ \A i \in 1..Len(prevTodos) : ~prevTodos[i].completed

\* C25: a command that changes no record (toggle or remove with an absent
\* identifier, clearCompleted with no completed record) changes nothing else:
\* Collection, FilteredView and Stats keep their identity and no save call is made.
C25_NoOpChangesNothing ==
    NoOpRendered =>
        /\ renewed \cap {"todos", "filteredTodos", "stats"} = {}
        /\ saveCalls = 0

\* hasCompleted: stats.completed > 0
hasCompleted == stats.completed > 0

\* C26: remove deletes exactly the records with the given identifier and
\* clearCompleted exactly the completed ones, every other record staying as it was
\* and in its order; after clearCompleted Stats.completed is 0 and hasCompleted
\* is false.
C26_RemoveExactly ==
    /\ LastWas("delete") =>
          todos = SelectSeq(prevTodos, LAMBDA t : t.id # lastBatch[1].id)
    /\ LastWas("clear") =>
          /\ todos = SelectSeq(prevTodos, LAMBDA t : ~t.completed)
          /\ stats.completed = 0
          /\ ~hasCompleted

C26_Witness ==
    /\ LastWas("clear")
    /\ Len(prevTodos) = 2
    /\ prevTodos[1].completed # prevTodos[2].completed
    /\ Len(todos) = 1
    /\ ~todos[1].completed

\* C29: updatedAt is the time of the last update: add gives updatedAt = createdAt,
\* a toggle or an edit of a record sets its updatedAt to the time of the command
\* and leaves createdAt, so updatedAt >= createdAt always.
C29_UpdatedAtIsLastUpdate ==
    /\ \A i \in 1..Len(todos) : todos[i].updatedAt >= todos[i].createdAt
    /\ LastWas("add") => todos[Len(todos)].updatedAt = todos[Len(todos)].createdAt
    /\ (Len(lastBatch) = 1 /\ lastBatch[1].op \in {"toggle", "update"}) =>
          \A i \in 1..Len(todos) :
              todos[i].id = lastBatch[1].id =>
                  /\ todos[i].createdAt = prevTodos[i].createdAt
                  /\ todos[i].updatedAt > prevTodos[i].updatedAt

\* C30: in every state the length of the FilteredView is Stats.total under filter
\* all, Stats.active under active and Stats.completed under completed, and
\* hasCompleted is true exactly when Stats.completed > 0, that is when the
\* Collection has a completed record.
C30_ViewMatchesStats ==
    /\ filter = "all" => Len(filteredTodos) = stats.total
    /\ filter = "active" => Len(filteredTodos) = stats.active
    /\ filter = "completed" => Len(filteredTodos) = stats.completed
    /\ hasCompleted <=> stats.completed > 0
    /\ hasCompleted <=> \E i \in 1..Len(todos) : todos[i].completed

\* under filter active, a render of an add after which the view and the Stats differ
\* from those before
C30_Witness ==
    /\ filter = "active"
    /\ LastWas("add")
    /\ Len(filteredTodos) = 2
    /\ stats.active = 2
    /\ stats.total = 3
    /\ hasCompleted

====
